---------------------------- MODULE Spec2Model ----------------------------
(***************************************************************************)
(* Model of the resumable speech recognition hook                          *)
(* (src/useResumableSpeechRecognition.ts) and of the WAV joiner            *)
(* (src/modules/audioutils/.../AudioutilsModule.kt, which holds the        *)
(* Kotlin module and, behind it, the Swift module).                        *)
(*                                                                         *)
(* The hook is a React hook: every command and every engine event handler  *)
(* runs to completion on the state of the latest render.  The one place    *)
(* where a handler is suspended is start(), which awaits the permission    *)
(* request and then continues with the values its closure captured when    *)
(* it was called.                                                          *)
(***************************************************************************)
EXTENDS Integers, Sequences, FiniteSets, TLC

(***************************************************************************)
(* Bounds of the model.                                                    *)
(***************************************************************************)
MaxSessions == 2
MaxFrags == 2
MaxFiles == 2

\* The hook never compares two texts or two file names, so the recognizer's
\* k-th text and the recorder's k-th file (outputFileName carries Date.now())
\* are modelled as distinct values.
TextNames == <<"t1", "t2", "t3", "t4", "t5", "t6">>
UriNames == <<"u1", "u2", "u3", "u4", "u5", "u6">>
Opts == {"o1"}

(***************************************************************************)
(* Values standing for JavaScript's null / undefined / "".                 *)
(***************************************************************************)
NoId == -1
NoUri == "null"
NoOpts == "undefined"
NoTime == "undefined"
SomeTime == "date"
Empty == ""
Space == " "

VARIABLES
    isListening,        \* useState(false)
    isPaused,           \* useState(false)
    currentSession,     \* useState<RecordingSession | null>(null)
    allSessions,        \* useState<RecordingSession[]>([])
    transcript,         \* useState(""), kept as the sequence of its pieces
    interimTranscript,  \* useState("")
    sessionCounter,     \* sessionCounterRef
    sessionOptions,     \* sessionOptions ref
    engine,             \* the recognizer: "off", "starting", "on", "stopping"
    recording,          \* the recorder holds a file whose audioend is still to come
    call,               \* the start() call in flight, if any
    last,               \* the handler that ran last, its engine call, its outcome
                        \* and the files it tried, and failed, to delete
    join                \* the joinAudioFiles call: its locals and its output file

prog == <<isListening, isPaused, currentSession, allSessions, transcript,
          interimTranscript, sessionCounter, sessionOptions>>

vars == <<isListening, isPaused, currentSession, allSessions, transcript,
          interimTranscript, sessionCounter, sessionOptions, engine, recording,
          call, last, join>>

\* the hook's part of the state
hook == <<isListening, isPaused, currentSession, allSessions, transcript,
          interimTranscript, sessionCounter, sessionOptions, engine, recording,
          call, last>>

(***************************************************************************)
(* Data.                                                                   *)
(***************************************************************************)
NullSession ==
    [id |-> NoId, endTime |-> NoTime, audioFiles |-> <<>>,
     transcripts |-> <<>>, isActive |-> FALSE]

HasSession(s) == s.id # NoId

NewSession(n) ==
    [id |-> n, endTime |-> NoTime, audioFiles |-> <<>>,
     transcripts |-> <<>>, isActive |-> TRUE]

Fragment(text) == [transcript |-> text, audioFileUri |-> NoUri]

NoCall == [pc |-> "none", via |-> "none", options |-> NoOpts,
           hasSession |-> FALSE, isActive |-> FALSE]

Did(op, engineCall, outcome) ==
    [op |-> op, engineCall |-> engineCall, outcome |-> outcome,
     attempted |-> {}, failed |-> {}, from |-> NoId]

\* the audio files of all the sessions of a list
AllAudioFiles(sessions) ==
    UNION {{sessions[i].audioFiles[k] : k \in 1..Len(sessions[i].audioFiles)} :
                i \in 1..Len(sessions)}

\* the fragments, and the audio files, held by all sessions together: what
\* MaxFrags and MaxFiles bound
RECURSIVE TotalFrags(_)
TotalFrags(sessions) ==
    IF Len(sessions) = 0 THEN 0
    ELSE Len(sessions[1].transcripts) + TotalFrags(Tail(sessions))

RECURSIVE TotalFiles(_)
TotalFiles(sessions) ==
    IF Len(sessions) = 0 THEN 0
    ELSE Len(sessions[1].audioFiles) + TotalFiles(Tail(sessions))

\* ExpoSpeechRecognitionModule.start(startOptions), as the recognizer sees it
EngineStart(e) == "starting"

\* ExpoSpeechRecognitionModule.stop(), as the recognizer sees it
EngineStop(e) == IF e \in {"starting", "on"} THEN "stopping" ELSE e

(***************************************************************************)
(* The WAV joiner (AudioutilsModule.kt, joinAudioFiles and findDataChunk). *)
(* Bytes are 0..255; a file is the sequence of its bytes; byte k of the    *)
(* code (counted from 0) is element k + 1 of the sequence.                 *)
(***************************************************************************)
MaxSources == 2

\* the calls of joinAudioFiles made one after the other
MaxRuns == 2

RIFF == <<82, 73, 70, 70>>
WAVE == <<87, 65, 86, 69>>
FMT == <<102, 109, 116, 32>>
DATA == <<100, 97, 116, 97>>
LIST == <<76, 73, 83, 84>>
JUNK == <<74, 85, 78, 75>>

HeaderSize == 44
RiffHeaderSize == 12
MinInt == -2147483647 - 1
MaxInt == 2147483647

\* the four bytes of a 32-bit integer, least significant first
\* (ByteBuffer.putInt under ByteOrder.LITTLE_ENDIAN)
PutInt(n) ==
    <<n % 256, (n \div 256) % 256, (n \div 65536) % 256,
      (n \div 16777216) % 256>>

\* the chunk size read at offset + 4: four bytes, little-endian, as an Int
ChunkSizeAt(data, offset) ==
    LET b0 == data[offset + 5]
        b1 == data[offset + 6]
        b2 == data[offset + 7]
        b3 == data[offset + 8]
    IN  b0 + b1 * 256 + b2 * 65536
           + (IF b3 >= 128 THEN b3 - 256 ELSE b3) * 16777216

\* 8 + chunkSize in Int arithmetic, which wraps
EightPlus(chunkSize) ==
    IF chunkSize > MaxInt - 8 THEN (chunkSize + MinInt) + (8 + MinInt)
    ELSE 8 + chunkSize

\* offset += 8 + chunkSize; if (chunkSize % 2 == 1) offset += 1
\* An offset past the end of the data is kept at the end of the data: the
\* loop only compares it with data.size - 8.
NextOffset(data, offset, chunkSize) ==
    LET step == EightPlus(chunkSize)
        pad == IF chunkSize > 0 /\ chunkSize % 2 = 1 THEN 1 ELSE 0
    IN  IF step >= Len(data) THEN Len(data) ELSE offset + step + pad

\* the loop of findDataChunk from the given offset.  fuel counts the
\* iterations left: the walk is deterministic, so one that makes more
\* iterations than the data has bytes has come back to an offset it has
\* seen and never ends.
RECURSIVE FindFrom(_, _, _)
FindFrom(data, offset, fuel) ==
    IF ~(offset < Len(data) - 8)
    THEN [kind |-> "fallback", offset |-> HeaderSize, size |-> Len(data) - HeaderSize]
    ELSE IF offset < 0
    THEN [kind |-> "throws", offset |-> 0, size |-> 0]
    ELSE IF fuel = 0
    THEN [kind |-> "hangs", offset |-> 0, size |-> 0]
    ELSE LET chunkID == SubSeq(data, offset + 1, offset + 4)
             chunkSize == ChunkSizeAt(data, offset)
         IN  IF chunkID = DATA
             THEN [kind |-> "found", offset |-> offset + 8, size |-> chunkSize]
             ELSE FindFrom(data, NextOffset(data, offset, chunkSize), fuel - 1)

\* findDataChunk(data)
findDataChunk(data) == FindFrom(data, RiffHeaderSize, Len(data))

\* fileData.sliceArray(dataOffset until (dataOffset + dataSize)): an empty
\* range gives an empty array, a range outside the array throws
SliceArray(data, dataOffset, dataSize) ==
    IF dataSize <= 0 THEN [ok |-> TRUE, bytes |-> <<>>]
    ELSE IF dataOffset < 0 \/ dataOffset + dataSize > Len(data)
    THEN [ok |-> FALSE, bytes |-> <<>>]
    ELSE [ok |-> TRUE, bytes |-> SubSeq(data, dataOffset + 1, dataOffset + dataSize)]

\* val header = ByteArray(44); firstFileStream.read(header)
ReadHeader(data) ==
    [i \in 1..HeaderSize |-> IF i <= Len(data) THEN data[i] ELSE 0]

(***************************************************************************)
(* The files on disk.  Each is written as the list of its chunks, so that  *)
(* its payload is known without walking its bytes.                         *)
(***************************************************************************)
\* a chunk: id, length, body, and a pad byte after a body of odd length
Chunk(id, body) ==
    id \o PutInt(Len(body)) \o body
       \o (IF Len(body) % 2 = 1 THEN <<0>> ELSE <<>>)

RECURSIVE Chunks(_)
Chunks(cs) ==
    IF Len(cs) = 0 THEN <<>>
    ELSE Chunk(cs[1].id, cs[1].body) \o Chunks(Tail(cs))

\* a RIFF/WAVE container of the given chunks
Wav(cs) == RIFF \o PutInt(4 + Len(Chunks(cs))) \o WAVE \o Chunks(cs)

\* the body of a PCM format chunk: tag 1, one channel, 16000 Hz, 16 bits
Pcm16 == <<1, 0, 1, 0, 128, 62, 0, 0, 0, 125, 0, 0, 2, 0, 16, 0>>

\* the body of another PCM format chunk: tag 1, two channels, 8000 Hz, 8 bits
Pcm8Stereo == <<1, 0, 2, 0, 64, 31, 0, 0, 128, 62, 0, 0, 2, 0, 8, 0>>

Ck(id, body) == [id |-> id, body |-> body]

Paths == {"canon", "list", "odd", "empty", "junk", "ext", "stereo", "short",
          "text", "loop", "back", "missing", "gone"}

Exists(path) == path \notin {"missing", "gone"}

\* the chunks of the file at a path
ChunksOf(path) ==
    CASE path = "canon" -> <<Ck(FMT, Pcm16), Ck(DATA, <<1, 2, 3, 4>>)>>
      [] path = "list"  -> <<Ck(FMT, Pcm16), Ck(LIST, <<9, 9>>),
                             Ck(DATA, <<5, 6>>)>>
      [] path = "odd"   -> <<Ck(FMT, Pcm16), Ck(LIST, <<9>>),
                             Ck(DATA, <<7, 8>>), Ck(LIST, <<9, 9>>)>>
      [] path = "empty" -> <<Ck(FMT, Pcm16), Ck(LIST, <<9, 9, 9, 9>>),
                             Ck(DATA, <<>>)>>
      [] path = "junk"  -> <<Ck(JUNK, <<0, 0>>), Ck(FMT, Pcm16),
                             Ck(DATA, <<3, 4>>)>>
      [] path = "ext"   -> <<Ck(FMT, Pcm16 \o <<0, 0>>), Ck(DATA, <<5, 5>>)>>
      [] path = "stereo" -> <<Ck(FMT, Pcm8Stereo), Ck(DATA, <<11, 12>>)>>
      [] OTHER -> <<>>

\* the files that are no RIFF/WAVE container: one cut off inside its
\* preamble, and one of 50 bytes of text
IsContainer(path) == path \notin {"short", "text"}

\* the files whose first chunk declares a length with the top bit set:
\* 0xFFFFFFF8 (-8 as an Int) and 0xFFFFFFE8 (-24 as an Int)
TopBit(path) == path \in {"loop", "back"}

\* a container whose first chunk has the given four length bytes
WithLength(lengthBytes) ==
    RIFF \o PutInt(48) \o WAVE \o LIST \o lengthBytes
         \o Chunk(FMT, Pcm16) \o Chunk(DATA, <<1, 2, 3, 4>>)

\* File(filePath).readBytes()
ReadBytes(path) ==
    CASE path = "short" -> RIFF \o PutInt(2) \o <<87, 65>>
      [] path = "text"  -> [i \in 1..50 |-> 120]
      [] path = "loop"  -> WithLength(<<248, 255, 255, 255>>)
      [] path = "back"  -> WithLength(<<232, 255, 255, 255>>)
      [] OTHER -> Wav(ChunksOf(path))

\* an audio file as joinAudioFiles is given it: a path, with or without the
\* "file://" scheme in front
AudioFiles == [scheme : BOOLEAN, path : Paths]

\* if (audioFile.startsWith("file://")) audioFile.substring(7) else audioFile
FilePath(audioFile) == audioFile.path

\* platform is the implementation that runs the call ("android": the Kotlin
\* module, "ios": the Swift module); named is the path the error message
\* carries
\* now is the clock the output file is named after (currentTimeMillis() /
\* timeIntervalSince1970, in the unit the file name keeps), outputPath the
\* name of this call's output file; runs counts the calls that have ended,
\* again is the call the caller repeats, earlier the output files the
\* earlier calls returned, each with the content it had then
NoPath == -1

JoinIdle ==
    [pc |-> "idle", platform |-> "none", audioFiles |-> <<>>, header |-> <<>>,
     convertedFilePaths |-> <<>>, dataChunkOffsets |-> <<>>,
     dataChunkSizes |-> <<>>, totalDataSize |-> 0, index |-> 0,
     created |-> FALSE, output |-> <<>>, error |-> "none", named |-> "none",
     now |-> 0, outputPath |-> NoPath, runs |-> 0, again |-> <<>>,
     earlier |-> <<>>]

Failed(j, error) == [j EXCEPT !.pc = "failed", !.error = error]

\* an error whose message leaves the path out
FailedWithoutPath(j, error, path) == [j EXCEPT !.pc = "failed", !.error = error]

\* an error whose message ends with the path of a file
FailedNaming(j, error, path) ==
    [j EXCEPT !.pc = "failed", !.error = error, !.named = path]

\* joinAudioFiles without its check for an empty list
joinAudioFilesAcceptingEmpty(audioFiles) ==
    /\ join.pc = "idle"
    /\ join.platform \in {"none", "android"}
    /\ LET called == [join EXCEPT !.audioFiles = audioFiles,
                                  !.platform = "android",
                                  !.outputPath = IF Len(audioFiles) = 0
                                                 THEN NoPath ELSE join.now]
       IN  IF Len(audioFiles) = 0
           THEN join' = [called EXCEPT !.pc = "scan", !.header = ReadHeader(<<>>)]
           ELSE IF ~Exists(FilePath(audioFiles[1]))
           THEN join' = FailedNaming(called, "First audio file not found",
                                     FilePath(audioFiles[1]))
           ELSE LET header == ReadHeader(ReadBytes(FilePath(audioFiles[1])))
                IN  IF SubSeq(header, 1, 4) # RIFF
                    THEN join' = Failed(called, "First file is not a valid WAV file")
                    ELSE join' = [called EXCEPT !.pc = "scan", !.header = header]
    /\ UNCHANGED hook

\* joinAudioFiles(audioFiles), up to the validation of the first file's header
joinAudioFiles(audioFiles) ==
    /\ join.pc = "idle"
    /\ join.platform \in {"none", "android"}
    /\ LET called == [join EXCEPT !.audioFiles = audioFiles,
                                  !.platform = "android",
                                  !.outputPath = IF Len(audioFiles) = 0
                                                 THEN NoPath ELSE join.now]
       IN  IF Len(audioFiles) = 0
           THEN join' = Failed(called, "No audio files provided")
           ELSE IF ~Exists(FilePath(audioFiles[1]))
           THEN join' = FailedNaming(called, "First audio file not found",
                                     FilePath(audioFiles[1]))
           ELSE LET header == ReadHeader(ReadBytes(FilePath(audioFiles[1])))
                IN  IF SubSeq(header, 1, 4) # RIFF
                    THEN join' = Failed(called, "First file is not a valid WAV file")
                    ELSE join' = [called EXCEPT !.pc = "scan", !.header = header]
    /\ UNCHANGED hook

\* one turn of the loop that finds the data chunks and adds up their sizes
joinScan ==
    /\ join.platform = "android"
    /\ join.pc = "scan"
    /\ Len(join.convertedFilePaths) < Len(join.audioFiles)
    /\ LET filePath == FilePath(join.audioFiles[Len(join.convertedFilePaths) + 1])
           converted == [join EXCEPT !.convertedFilePaths = Append(@, filePath)]
           found == findDataChunk(ReadBytes(filePath))
       IN  IF ~Exists(filePath)
           THEN join' = FailedNaming(converted, "Audio file not found", filePath)
           ELSE IF found.kind = "throws"
           THEN join' = Failed(converted, "StringIndexOutOfBoundsException")
           ELSE IF found.kind = "hangs"
           THEN join' = [converted EXCEPT !.pc = "hangs"]
           ELSE join' = [converted EXCEPT
                            !.dataChunkOffsets = Append(@, found.offset),
                            !.dataChunkSizes = Append(@, found.size),
                            !.totalDataSize = @ + found.size]
    /\ UNCHANGED hook

\* the clean header for the fmt chunk of the first file and a data size
NewHeader(header, totalDataSize) ==
    RIFF \o PutInt(36 + totalDataSize) \o WAVE
         \o SubSeq(header, 13, 36)
         \o DATA \o PutInt(totalDataSize)

\* the new header is built and written to the new output file
joinWriteHeader ==
    /\ join.platform = "android"
    /\ join.pc = "scan"
    /\ Len(join.convertedFilePaths) = Len(join.audioFiles)
    /\ join' = [join EXCEPT
                    !.pc = "append",
                    !.created = TRUE,
                    !.output = NewHeader(join.header, join.totalDataSize)]
    /\ UNCHANGED hook

\* one turn of the loop that appends the data chunks
joinAppend ==
    /\ join.platform = "android"
    /\ join.pc = "append"
    /\ join.index < Len(join.convertedFilePaths)
    /\ LET i == join.index + 1
           fileData == ReadBytes(join.convertedFilePaths[i])
           audioData == SliceArray(fileData, join.dataChunkOffsets[i],
                                   join.dataChunkSizes[i])
       IN  IF ~audioData.ok
           THEN join' = Failed(join, "IndexOutOfBoundsException")
           ELSE join' = [join EXCEPT !.index = i,
                                     !.output = @ \o audioData.bytes]
    /\ UNCHANGED hook

\* outputStream.close(); return outputPath
joinReturn ==
    /\ join.platform = "android"
    /\ join.pc = "append"
    /\ join.index = Len(join.convertedFilePaths)
    /\ join' = [join EXCEPT !.pc = "done"]
    /\ UNCHANGED hook

(***************************************************************************)
(* The same joiner as the Swift module has it (the second half of the      *)
(* source file).  Its integers are 64 bits wide and its chunk sizes are     *)
(* unsigned, a range whose end lies before its start or outside the data   *)
(* is a runtime trap, and so is a negative value given to UInt32().        *)
(***************************************************************************)
\* bytes.load(as: UInt32.self) of the four bytes at offset + 4.  A value of
\* 2^31 or more is kept as MaxInt: the walk only adds it to the offset,
\* which then lies past the end of any data.
ChunkSizeAtSwift(data, offset) ==
    IF data[offset + 8] >= 128 THEN MaxInt
    ELSE data[offset + 5] + data[offset + 6] * 256 + data[offset + 7] * 65536
            + data[offset + 8] * 16777216

\* the loop of the Swift findDataChunk from the given offset; the offset
\* grows in every turn.  An offset past the end of the data is kept at the
\* end of the data: the loop only compares it with data.count - 8.
RECURSIVE FindFromSwift(_, _)
FindFromSwift(data, offset) ==
    IF ~(offset < Len(data) - 8)
    THEN [kind |-> "fallback", offset |-> HeaderSize, size |-> Len(data) - HeaderSize]
    ELSE LET chunkID == SubSeq(data, offset + 1, offset + 4)
             chunkSize == ChunkSizeAtSwift(data, offset)
             pad == IF chunkSize % 2 = 1 THEN 1 ELSE 0
         IN  IF chunkID = DATA
             THEN [kind |-> "found", offset |-> offset + 8, size |-> chunkSize]
             ELSE FindFromSwift(data,
                                IF chunkSize >= Len(data) THEN Len(data)
                                ELSE offset + 8 + chunkSize + pad)

\* findDataChunk(in: data)
findDataChunkSwift(data) == FindFromSwift(data, RiffHeaderSize)

\* fileData.subdata(in: dataOffset..<(dataOffset + dataSize))
SubdataSwift(data, dataOffset, dataSize) ==
    IF dataSize < 0 \/ dataOffset < 0 \/ dataOffset + dataSize > Len(data)
    THEN [ok |-> FALSE, bytes |-> <<>>]
    ELSE [ok |-> TRUE, bytes |-> SubSeq(data, dataOffset + 1, dataOffset + dataSize)]

\* the process has trapped: the call never answers
Crashed(j) == [j EXCEPT !.pc = "crashed"]

\* joinAudioFiles(audioFiles), up to the validation of the first file's header
joinAudioFilesSwift(audioFiles) ==
    /\ join.pc = "idle"
    /\ join.platform \in {"none", "ios"}
    /\ LET called == [join EXCEPT !.audioFiles = audioFiles,
                                  !.platform = "ios",
                                  !.outputPath = IF Len(audioFiles) = 0
                                                 THEN NoPath ELSE join.now]
       IN  IF Len(audioFiles) = 0
           THEN join' = Failed(called, "No audio files provided")
           ELSE IF ~Exists(FilePath(audioFiles[1]))
           THEN join' = FailedNaming(called, "First audio file not found",
                                     FilePath(audioFiles[1]))
           ELSE LET firstFileData == ReadBytes(FilePath(audioFiles[1]))
                IN  IF Len(firstFileData) < HeaderSize
                    THEN join' = Failed(called,
                            "First file is too small to be a valid WAV file")
                    ELSE IF SubSeq(firstFileData, 1, 4) # RIFF
                    THEN join' = Failed(called, "First file is not a valid WAV file")
                    ELSE join' = [called EXCEPT
                                    !.pc = "scan",
                                    !.header = SubSeq(firstFileData, 1, HeaderSize)]
    /\ UNCHANGED hook

\* one turn of the loop that finds the data chunks and adds up their sizes
joinScanSwift ==
    /\ join.platform = "ios"
    /\ join.pc = "scan"
    /\ Len(join.convertedFilePaths) < Len(join.audioFiles)
    /\ LET filePath == FilePath(join.audioFiles[Len(join.convertedFilePaths) + 1])
           converted == [join EXCEPT !.convertedFilePaths = Append(@, filePath)]
           found == findDataChunkSwift(ReadBytes(filePath))
       IN  IF ~Exists(filePath)
           THEN join' = FailedNaming(converted, "Audio file not found", filePath)
           ELSE join' = [converted EXCEPT
                            !.dataChunkOffsets = Append(@, found.offset),
                            !.dataChunkSizes = Append(@, found.size),
                            !.totalDataSize = @ + found.size]
    /\ UNCHANGED hook

\* the new header is built, the output file is created and the header written
joinWriteHeaderSwift ==
    /\ join.platform = "ios"
    /\ join.pc = "scan"
    /\ Len(join.convertedFilePaths) = Len(join.audioFiles)
    /\ IF 36 + join.totalDataSize < 0 \/ join.totalDataSize < 0
       THEN join' = Crashed(join)
       ELSE join' = [join EXCEPT
                        !.pc = "append",
                        !.created = TRUE,
                        !.output = NewHeader(join.header, join.totalDataSize)]
    /\ UNCHANGED hook

\* one turn of the loop that appends the data chunks
joinAppendSwift ==
    /\ join.platform = "ios"
    /\ join.pc = "append"
    /\ join.index < Len(join.convertedFilePaths)
    /\ LET i == join.index + 1
           fileData == ReadBytes(join.convertedFilePaths[i])
           audioData == SubdataSwift(fileData, join.dataChunkOffsets[i],
                                     join.dataChunkSizes[i])
       IN  IF ~audioData.ok
           THEN join' = Crashed(join)
           ELSE join' = [join EXCEPT !.index = i,
                                     !.output = @ \o audioData.bytes]
    /\ UNCHANGED hook

\* outputHandle.closeFile(); return outputPath
joinReturnSwift ==
    /\ join.platform = "ios"
    /\ join.pc = "append"
    /\ join.index = Len(join.convertedFilePaths)
    /\ join' = [join EXCEPT !.pc = "done"]
    /\ UNCHANGED hook

\* the caller calls joinAudioFiles again with the list it gave before, right
\* away or after the clock has moved on; the files on disk stay
joinAgain ==
    /\ join.pc \in {"done", "failed"}
    /\ join.runs < MaxRuns - 1
    /\ \E passed \in BOOLEAN :
            join' = [JoinIdle EXCEPT
                        !.platform = join.platform,
                        !.now = join.now + (IF passed THEN 1 ELSE 0),
                        !.runs = join.runs + 1,
                        !.again = <<join.audioFiles>>,
                        !.earlier =
                            IF join.pc = "done"
                            THEN Append(join.earlier,
                                        [path |-> join.outputPath,
                                         content |-> join.output])
                            ELSE join.earlier]
    /\ UNCHANGED hook

Init ==
    /\ isListening = FALSE
    /\ isPaused = FALSE
    /\ currentSession = NullSession
    /\ allSessions = <<>>
    /\ transcript = <<>>
    /\ interimTranscript = Empty
    /\ sessionCounter = 0
    /\ sessionOptions = NoOpts
    /\ engine = "off"
    /\ recording = FALSE
    /\ call = NoCall
    /\ last = Did("init", "none", "ok")
    /\ join = JoinIdle

(***************************************************************************)
(* Engine events.                                                          *)
(***************************************************************************)
\* useSpeechRecognitionEvent("start"), and the startListener of a pending start()
onStart ==
    /\ UNCHANGED join
    /\ engine = "starting"
    /\ engine' = "on"
    /\ recording' = TRUE
    /\ isListening' = TRUE
    /\ isPaused' = FALSE
    /\ call' = IF call.pc = "ack" THEN NoCall ELSE call
    /\ last' = Did("onStart", "none", IF call.pc = "ack" THEN "resolved" ELSE "ok")
    /\ UNCHANGED <<currentSession, allSessions, transcript, interimTranscript,
                   sessionCounter, sessionOptions>>

\* a result stored twice
AddResultTwice(s, transcriptResult) ==
    [s EXCEPT !.transcripts = Append(Append(@, transcriptResult), transcriptResult)]

\* { ...session, transcripts: [...session.transcripts, transcriptResult] }
AddResult(s, transcriptResult) ==
    [s EXCEPT !.transcripts = Append(@, transcriptResult)]

\* useSpeechRecognitionEvent("result"); results is event.results
onResult(isFinal, results) ==
    /\ UNCHANGED join
    /\ engine \in {"on", "stopping"}
    /\ IF Len(results) > 0
       THEN LET transcriptResult == Fragment(results[1].transcript)
            IN  IF isFinal
                THEN /\ Len(transcript) < 2 * MaxFrags
                     /\ TotalFrags(allSessions) < MaxFrags
                     /\ transcript' = transcript \o <<Space, results[1].transcript>>
                     /\ interimTranscript' = Empty
                     /\ IF HasSession(currentSession)
                        THEN /\ allSessions' =
                                    [i \in 1..Len(allSessions) |->
                                        IF allSessions[i].id = currentSession.id
                                        THEN AddResult(allSessions[i], transcriptResult)
                                        ELSE allSessions[i]]
                             /\ currentSession' =
                                    AddResult(currentSession, transcriptResult)
                        ELSE UNCHANGED <<allSessions, currentSession>>
                ELSE /\ interimTranscript' = results[1].transcript
                     /\ UNCHANGED <<transcript, allSessions, currentSession>>
       ELSE UNCHANGED <<transcript, interimTranscript, allSessions, currentSession>>
    /\ last' = Did("onResult", "none", "ok")
    /\ UNCHANGED <<isListening, isPaused, sessionCounter, sessionOptions, engine,
                   recording, call>>

\* transcripts.map((transcript, index) => index === length - 1 ? {...} : transcript)
AttachToLatest(transcripts, uri) ==
    [i \in 1..Len(transcripts) |->
        IF i = Len(transcripts)
        THEN [transcripts[i] EXCEPT !.audioFileUri = uri]
        ELSE transcripts[i]]

\* updateSessionWithAudioFile: what it does to one session
AddAudioFile(s, audioFileUri) ==
    [s EXCEPT !.audioFiles = Append(@, audioFileUri)]

\* what the audioend handler does to the session it updates: the file is
\* added, then the latest transcript gets the file's uri
AddAudioEnd(s, uri) ==
    [AddAudioFile(s, uri) EXCEPT !.transcripts = AttachToLatest(@, uri)]

\* an "audioend" handler that updates the session list only
onAudioendListOnly(uri) ==
    /\ UNCHANGED join
    /\ recording
    /\ engine \in {"stopping", "off"}
    /\ recording' = FALSE
    /\ IF HasSession(currentSession) /\ uri # NoUri
       THEN /\ TotalFiles(allSessions) < MaxFiles
            /\ allSessions' =
                    [i \in 1..Len(allSessions) |->
                        IF allSessions[i].id = currentSession.id
                        THEN AddAudioEnd(allSessions[i], uri)
                        ELSE allSessions[i]]
       ELSE UNCHANGED allSessions
    /\ last' = Did("onAudioend", "none", "ok")
    /\ UNCHANGED <<isListening, isPaused, currentSession, transcript,
                   interimTranscript, sessionCounter, sessionOptions, engine,
                   call>>

\* useSpeechRecognitionEvent("audioend"); uri is event.uri
onAudioend(uri) ==
    /\ UNCHANGED join
    /\ recording
    /\ engine \in {"stopping", "off"}
    /\ recording' = FALSE
    /\ IF HasSession(currentSession) /\ uri # NoUri
       THEN /\ TotalFiles(allSessions) < MaxFiles
            /\ allSessions' =
                    [i \in 1..Len(allSessions) |->
                        IF allSessions[i].id = currentSession.id
                        THEN AddAudioEnd(allSessions[i], uri)
                        ELSE allSessions[i]]
            /\ currentSession' = AddAudioEnd(currentSession, uri)
       ELSE UNCHANGED <<allSessions, currentSession>>
    /\ last' = Did("onAudioend", "none", "ok")
    /\ UNCHANGED <<isListening, isPaused, transcript, interimTranscript,
                   sessionCounter, sessionOptions, engine, call>>

\* an "end" handler that leaves isListening as it is
onEndKeepingListening ==
    /\ UNCHANGED join
    /\ engine \in {"on", "stopping"}
    /\ engine' = "off"
    /\ isPaused' = TRUE
    /\ last' = Did("onEnd", "none", "ok")
    /\ UNCHANGED <<isListening, currentSession, allSessions, transcript,
                   interimTranscript, sessionCounter, sessionOptions, recording,
                   call>>

\* useSpeechRecognitionEvent("end")
onEnd ==
    /\ UNCHANGED join
    /\ engine \in {"on", "stopping"}
    /\ engine' = "off"
    /\ isListening' = FALSE
    /\ isPaused' = TRUE
    /\ last' = Did("onEnd", "none", "ok")
    /\ UNCHANGED <<currentSession, allSessions, transcript, interimTranscript,
                   sessionCounter, sessionOptions, recording, call>>

\* what the caller of the start() in flight sees when it throws or rejects:
\* resume() catches and logs, start() lets it through
Failure(via) == IF via = "resume" THEN "swallowed" ELSE "rejected"

\* an error event that ends the current session, as stop does
onErrorEndingSession ==
    /\ UNCHANGED join
    /\ engine \in {"starting", "on", "stopping"}
    /\ engine' = "off"
    /\ isListening' = FALSE
    /\ isPaused' = FALSE
    /\ currentSession' =
            IF HasSession(currentSession)
            THEN [currentSession EXCEPT !.isActive = FALSE, !.endTime = SomeTime]
            ELSE currentSession
    /\ call' = IF call.pc = "ack" THEN NoCall ELSE call
    /\ last' = Did("onError", "none",
                   IF call.pc = "ack" THEN Failure(call.via) ELSE "ok")
    /\ UNCHANGED <<allSessions, transcript, interimTranscript,
                   sessionCounter, sessionOptions, recording>>

\* useSpeechRecognitionEvent("error"), and the errorListener of a pending start()
onError ==
    /\ UNCHANGED join
    /\ engine \in {"starting", "on", "stopping"}
    /\ engine' = "off"
    /\ isListening' = FALSE
    /\ isPaused' = FALSE
    /\ call' = IF call.pc = "ack" THEN NoCall ELSE call
    /\ last' = Did("onError", "none",
                   IF call.pc = "ack" THEN Failure(call.via) ELSE "ok")
    /\ UNCHANGED <<currentSession, allSessions, transcript, interimTranscript,
                   sessionCounter, sessionOptions, recording>>

(***************************************************************************)
(* Commands.                                                               *)
(***************************************************************************)
\* createNewSession with the list replaced instead of appended to
createNewSessionStateReplacing ==
    /\ sessionCounter < MaxSessions
    /\ allSessions' = <<NewSession(sessionCounter)>>
    /\ currentSession' = NewSession(sessionCounter)
    /\ transcript' = <<>>
    /\ interimTranscript' = Empty
    /\ sessionCounter' = sessionCounter + 1

\* createNewSession: the state it sets
createNewSessionState ==
    /\ sessionCounter < MaxSessions
    /\ allSessions' = Append(allSessions, NewSession(sessionCounter))
    /\ currentSession' = NewSession(sessionCounter)
    /\ transcript' = <<>>
    /\ interimTranscript' = Empty
    /\ sessionCounter' = sessionCounter + 1

\* createNewSession called by the user interface
createNewSession ==
    /\ UNCHANGED join
    /\ createNewSessionState
    /\ last' = Did("createNewSession", "none", "ok")
    /\ UNCHANGED <<isListening, isPaused, sessionOptions, engine, recording, call>>

\* the closure a start() call runs with: the currentSession of the render
\* in which it was called
Captured(via, options) ==
    [pc |-> "perm", via |-> via, options |-> options,
     hasSession |-> HasSession(currentSession),
     isActive |-> currentSession.isActive]

\* start(options), up to its await of requestPermissionsAsync()
start(options) ==
    /\ UNCHANGED join
    /\ call.pc = "none"
    /\ call' = Captured("start", options)
    /\ last' = Did("start", "none", "pending")
    /\ UNCHANGED <<prog, engine, recording>>

\* start() storing its options before it looks at the permission status
startDeniedStoringOptions ==
    /\ UNCHANGED join
    /\ call.pc = "perm"
    /\ call' = NoCall
    /\ sessionOptions' =
            IF call.options # NoOpts THEN call.options ELSE sessionOptions
    /\ last' = Did("startDenied", "none", Failure(call.via))
    /\ UNCHANGED <<isListening, isPaused, currentSession, allSessions, transcript,
                   interimTranscript, sessionCounter, engine, recording>>

\* start() continued with status !== "granted": it throws
startDenied ==
    /\ UNCHANGED join
    /\ call.pc = "perm"
    /\ call' = NoCall
    /\ last' = Did("startDenied", "none", Failure(call.via))
    /\ UNCHANGED <<prog, engine, recording>>

\* start() creating a session on every call
NeedsNewSessionAlways(c) == TRUE

\* !currentSession || !currentSession.isActive, on the closure's currentSession
NeedsNewSession(c) == ~c.hasSession \/ ~c.isActive

\* start() setting isListening itself when it has started the recognizer
startGrantedListening ==
    /\ UNCHANGED join
    /\ call.pc = "perm"
    /\ sessionOptions' =
            IF call.options # NoOpts THEN call.options ELSE sessionOptions
    /\ IF NeedsNewSession(call)
       THEN createNewSessionState
       ELSE UNCHANGED <<allSessions, currentSession, transcript,
                        interimTranscript, sessionCounter>>
    /\ engine' = EngineStart(engine)
    /\ call' = [NoCall EXCEPT !.pc = "ack", !.via = call.via]
    /\ last' = Did("startGranted", "start", "pending")
    /\ isListening' = TRUE
    /\ UNCHANGED <<isPaused, recording>>

\* start() continued with status === "granted", up to its await of the
\* recognizer's "start" or "error" event
startGranted ==
    /\ UNCHANGED join
    /\ call.pc = "perm"
    /\ sessionOptions' =
            IF call.options # NoOpts THEN call.options ELSE sessionOptions
    /\ IF NeedsNewSession(call)
       THEN createNewSessionState
       ELSE UNCHANGED <<allSessions, currentSession, transcript,
                        interimTranscript, sessionCounter>>
    /\ engine' = EngineStart(engine)
    /\ call' = [NoCall EXCEPT !.pc = "ack", !.via = call.via]
    /\ last' = Did("startGranted", "start", "pending")
    /\ UNCHANGED <<isListening, isPaused, recording>>

\* pause() without its isListening guard
pauseUnguarded ==
    /\ UNCHANGED join
    /\ engine' = EngineStop(engine)
    /\ last' = Did("pause", "stop", "ok")
    /\ UNCHANGED <<prog, recording, call>>

\* pause()
pause ==
    /\ UNCHANGED join
    /\ IF ~isListening
       THEN /\ last' = Did("pause", "none", "warn")
            /\ UNCHANGED engine
       ELSE /\ engine' = EngineStop(engine)
            /\ last' = Did("pause", "stop", "ok")
    /\ UNCHANGED <<prog, recording, call>>

\* resume(), up to the await inside the start() it calls
resume ==
    /\ UNCHANGED join
    /\ IF isListening \/ ~HasSession(currentSession)
       THEN /\ last' = Did("resume", "none", "warn")
            /\ UNCHANGED call
       ELSE /\ call.pc = "none"
            /\ call' = Captured("resume", NoOpts)
            /\ last' = Did("resume", "none", "pending")
    /\ UNCHANGED <<prog, engine, recording>>

\* a session ended without its end time
EndSessionNoEndTime(s) == [s EXCEPT !.isActive = FALSE]

\* { ...session, isActive: false, endTime: new Date() }
EndSession(s) == [s EXCEPT !.isActive = FALSE, !.endTime = SomeTime]

\* stop() without its guard on isListening and isPaused
stopUnguarded ==
    /\ UNCHANGED join
    /\ engine' = IF isListening THEN EngineStop(engine) ELSE engine
    /\ isListening' = FALSE
    /\ isPaused' = FALSE
    /\ IF HasSession(currentSession)
       THEN /\ allSessions' =
                    [i \in 1..Len(allSessions) |->
                        IF allSessions[i].id = currentSession.id
                        THEN EndSession(allSessions[i])
                        ELSE allSessions[i]]
            /\ currentSession' = EndSession(currentSession)
       ELSE UNCHANGED <<allSessions, currentSession>>
    /\ last' = Did("stop", IF isListening THEN "stop" ELSE "none", "ok")
    /\ UNCHANGED <<transcript, interimTranscript, sessionCounter,
                   sessionOptions>>
    /\ UNCHANGED <<recording, call>>

\* stop()
stop ==
    /\ UNCHANGED join
    /\ IF ~isListening /\ ~isPaused
       THEN /\ last' = Did("stop", "none", "warn")
            /\ UNCHANGED <<prog, engine>>
       ELSE /\ engine' = IF isListening THEN EngineStop(engine) ELSE engine
            /\ isListening' = FALSE
            /\ isPaused' = FALSE
            /\ IF HasSession(currentSession)
               THEN /\ allSessions' =
                            [i \in 1..Len(allSessions) |->
                                IF allSessions[i].id = currentSession.id
                                THEN EndSession(allSessions[i])
                                ELSE allSessions[i]]
                    /\ currentSession' = EndSession(currentSession)
               ELSE UNCHANGED <<allSessions, currentSession>>
            /\ last' = Did("stop", IF isListening THEN "stop" ELSE "none", "ok")
            /\ UNCHANGED <<transcript, interimTranscript, sessionCounter,
                           sessionOptions>>
    /\ UNCHANGED <<recording, call>>

\* clearSessions(): file.delete() is tried for every audio file of every
\* session; a deletion that throws is logged and the loop goes on
clearSessions ==
    /\ UNCHANGED join
    /\ allSessions' = <<>>
    /\ currentSession' = NullSession
    /\ transcript' = <<>>
    /\ interimTranscript' = Empty
    /\ \E failed \in SUBSET AllAudioFiles(allSessions) :
            last' = [Did("clearSessions", "none", "ok") EXCEPT
                        !.attempted = AllAudioFiles(allSessions),
                        !.failed = failed]
    /\ UNCHANGED <<isListening, isPaused, sessionCounter, sessionOptions, engine,
                   recording, call>>

\* session.transcripts.map(t => t.transcript).join(" ")
RECURSIVE JoinTexts(_)
JoinTexts(transcripts) ==
    IF Len(transcripts) = 0 THEN <<>>
    ELSE IF Len(transcripts) = 1 THEN <<transcripts[1].transcript>>
    ELSE <<transcripts[1].transcript, Space>> \o JoinTexts(Tail(transcripts))

\* switchToSession that takes active sessions only
switchToSessionActiveOnly(sessionId) ==
    /\ UNCHANGED join
    /\ IF \E i \in 1..Len(allSessions) :
                allSessions[i].id = sessionId /\ allSessions[i].isActive
       THEN LET i == CHOOSE j \in 1..Len(allSessions) :
                        /\ allSessions[j].id = sessionId
                        /\ \A k \in 1..(j - 1) : allSessions[k].id # sessionId
            IN  /\ currentSession' = allSessions[i]
                /\ transcript' = JoinTexts(allSessions[i].transcripts)
                /\ interimTranscript' = Empty
       ELSE UNCHANGED <<currentSession, transcript, interimTranscript>>
    /\ last' = [Did("switchToSession", "none", "ok") EXCEPT
                    !.from = currentSession.id]
    /\ UNCHANGED <<isListening, isPaused, allSessions, sessionCounter,
                   sessionOptions, engine, recording, call>>

\* switchToSession(sessionId)
switchToSession(sessionId) ==
    /\ UNCHANGED join
    /\ IF \E i \in 1..Len(allSessions) : allSessions[i].id = sessionId
       THEN LET i == CHOOSE j \in 1..Len(allSessions) :
                        /\ allSessions[j].id = sessionId
                        /\ \A k \in 1..(j - 1) : allSessions[k].id # sessionId
            IN  /\ currentSession' = allSessions[i]
                /\ transcript' = JoinTexts(allSessions[i].transcripts)
                /\ interimTranscript' = Empty
       ELSE UNCHANGED <<currentSession, transcript, interimTranscript>>
    /\ last' = [Did("switchToSession", "none", "ok") EXCEPT
                    !.from = currentSession.id]
    /\ UNCHANGED <<isListening, isPaused, allSessions, sessionCounter,
                   sessionOptions, engine, recording, call>>

\* the text the recognizer is hearing, and the file the recorder is writing
NextText == TextNames[TotalFrags(allSessions) + 1]
NextUri == UriNames[TotalFiles(allSessions) + 1]

Results == {<<>>, <<[transcript |-> NextText]>>}

\* the lists of audio files joinAudioFiles is called with
RECURSIVE Lists(_)
Lists(n) ==
    IF n = 0 THEN {<<>>}
    ELSE Lists(n - 1) \cup
            {Append(l, f) : l \in {m \in Lists(n - 1) : Len(m) = n - 1},
                            f \in AudioFiles}

\* the lists a call is made with: any list, or the one given before
Calls == IF join.again = <<>> THEN Lists(MaxSources) ELSE {join.again[1]}

\* a call is made when none is under way
JoinNext ==
    \/ join.pc = "idle"
            /\ \E audioFiles \in Calls : joinAudioFiles(audioFiles)
    \/ joinScan
    \/ joinWriteHeader
    \/ joinAppend
    \/ joinReturn
    \/ join.pc = "idle"
            /\ \E audioFiles \in Calls : joinAudioFilesSwift(audioFiles)
    \/ joinAgain
    \/ joinScanSwift
    \/ joinWriteHeaderSwift
    \/ joinAppendSwift
    \/ joinReturnSwift

JoinSpec == Init /\ [][JoinNext]_vars

Next ==
    \/ onStart
    \/ \E isFinal \in BOOLEAN, results \in Results : onResult(isFinal, results)
    \/ \E uri \in {NextUri, NoUri} : onAudioend(uri)
    \/ onEnd
    \/ onError
    \/ createNewSession
    \/ \E options \in Opts : start(options)
    \/ startDenied
    \/ startGranted
    \/ pause
    \/ resume
    \/ stop
    \/ clearSessions
    \/ \E sessionId \in 0..MaxSessions : switchToSession(sessionId)

Spec == Init /\ [][Next]_vars

\* the commands and the recognizer's answers to them: the steps of a start()
\* from its call to its completion
StartNext ==
    \/ \E options \in Opts : start(options)
    \/ startDenied
    \/ startGranted
    \/ onStart
    \/ onError
    \/ onEnd
    \/ pause
    \/ resume
    \/ stop

\* requestPermissionsAsync() settles, and the start() awaiting it is then
\* continued; nothing makes the recognizer emit an event
StartSpec ==
    Init /\ [][StartNext]_vars /\ WF_vars(startDenied \/ startGranted)

(***************************************************************************)
(* Helpers of the properties.                                              *)
(***************************************************************************)
\* the handler that took the step
Ran(op) == last'.op = op

IsPrefix(s, t) == Len(s) <= Len(t) /\ SubSeq(t, 1, Len(s)) = s

\* the texts of a fragment list
TextsOf(transcripts) ==
    [i \in 1..Len(transcripts) |-> transcripts[i].transcript]

\* the entries of a session list with the given id
Entries(sessions, id) == {i \in 1..Len(sessions) : sessions[i].id = id}

\* the session list keeps its length and ids, and every session other than
\* the one with the given id is as it was
OthersUnchanged(id) ==
    /\ Len(allSessions') = Len(allSessions)
    /\ \A i \in 1..Len(allSessions) :
            /\ allSessions'[i].id = allSessions[i].id
            /\ allSessions[i].id # id => allSessions'[i] = allSessions[i]

(***************************************************************************)
(* C1: once stop has ended a session (isActive = false), its audioFiles    *)
(* and its transcripts never change again while it is in the session list. *)
(***************************************************************************)
C1_EndedSessionStep ==
    \A i \in 1..Len(allSessions) :
        ~allSessions[i].isActive =>
            \A j \in 1..Len(allSessions') :
                allSessions'[j].id = allSessions[i].id =>
                    /\ allSessions'[j].audioFiles = allSessions[i].audioFiles
                    /\ allSessions'[j].transcripts = allSessions[i].transcripts

C1_EndedSessionFrozen == [][C1_EndedSessionStep]_vars

(***************************************************************************)
(* C2: pause followed by resume, with no stop in between, keeps the        *)
(* current session id and the session list; the fragments and segments     *)
(* that arrive afterwards are appended to that same session.               *)
(***************************************************************************)
C2_KeepsSession ==
    /\ currentSession'.id = currentSession.id
    /\ allSessions' = allSessions

C2_AppendsToCurrent ==
    /\ currentSession'.id = currentSession.id
    /\ OthersUnchanged(currentSession.id)
    /\ IsPrefix(TextsOf(currentSession.transcripts),
                TextsOf(currentSession'.transcripts))
    /\ IsPrefix(currentSession.audioFiles, currentSession'.audioFiles)
    /\ \A i \in Entries(allSessions, currentSession.id) :
            /\ IsPrefix(TextsOf(allSessions[i].transcripts),
                        TextsOf(allSessions'[i].transcripts))
            /\ IsPrefix(allSessions[i].audioFiles, allSessions'[i].audioFiles)
            /\ Len(allSessions'[i].transcripts) - Len(allSessions[i].transcripts)
                    = Len(currentSession'.transcripts) - Len(currentSession.transcripts)
            /\ Len(allSessions'[i].audioFiles) - Len(allSessions[i].audioFiles)
                    = Len(currentSession'.audioFiles) - Len(currentSession.audioFiles)

C2_Step ==
    /\ (Ran("pause") \/ Ran("onEnd") \/ Ran("resume") \/ Ran("onStart"))
            => C2_KeepsSession
    /\ (Ran("startGranted") /\ call.hasSession /\ call.isActive)
            => C2_KeepsSession
    /\ (Ran("onResult") \/ Ran("onAudioend")) => C2_AppendsToCurrent

C2_ResumeSameSession == [][C2_Step]_vars

\* a resumed burst is starting in the session that already holds a fragment
\* and a segment
C2_Witness ==
    /\ last.op = "startGranted"
    /\ call.via = "resume"
    /\ Len(allSessions) = 1
    /\ currentSession = allSessions[1]
    /\ currentSession.isActive
    /\ Len(currentSession.audioFiles) = 1
    /\ Len(currentSession.transcripts) = 1

(***************************************************************************)
(* C3: an audioend event with uri s, while a session is current, appends   *)
(* s to that session's audioFiles and attaches s to the most recently      *)
(* appended fragment that has no segment yet; every fragment that already  *)
(* carries a segment keeps it.                                             *)
(***************************************************************************)
\* the fragments that wait for their segment
Pending(transcripts) ==
    {i \in 1..Len(transcripts) : transcripts[i].audioFileUri = NoUri}

\* the segment attached to the latest pending fragment, if there is one
AttachToLatestPending(transcripts, uri) ==
    IF Pending(transcripts) = {} THEN transcripts
    ELSE LET k == CHOOSE i \in Pending(transcripts) :
                        \A j \in Pending(transcripts) : j <= i
         IN  [transcripts EXCEPT ![k].audioFileUri = uri]

C3_Applied(before, after, uri) ==
    /\ after.audioFiles = Append(before.audioFiles, uri)
    /\ after.transcripts = AttachToLatestPending(before.transcripts, uri)

C3_Step ==
    (Ran("onAudioend") /\ HasSession(currentSession)) =>
        \/ /\ currentSession' = currentSession
           /\ allSessions' = allSessions
        \/ \E k \in 1..Len(UriNames) :
            /\ C3_Applied(currentSession, currentSession', UriNames[k])
            /\ OthersUnchanged(currentSession.id)
            /\ \A i \in Entries(allSessions, currentSession.id) :
                    C3_Applied(allSessions[i], allSessions'[i], UriNames[k])

C3_SegmentToLatestPending == [][C3_Step]_vars

(***************************************************************************)
(* C6: stop from Listening or Paused ends the current session (isActive =  *)
(* false, endTime set) in the session list and in currentSession, sends    *)
(* stop to the engine if and only if it was Listening, and leaves the      *)
(* machine Idle.                                                           *)
(***************************************************************************)
Ended(before, after) ==
    /\ ~after.isActive
    /\ after.endTime # NoTime
    /\ after.id = before.id
    /\ after.audioFiles = before.audioFiles
    /\ after.transcripts = before.transcripts

C6_Step ==
    (Ran("stop") /\ (isListening \/ isPaused)) =>
        /\ ~isListening'
        /\ ~isPaused'
        /\ last'.outcome = "ok"
        /\ last'.engineCall = (IF isListening THEN "stop" ELSE "none")
        /\ engine' = (IF isListening THEN EngineStop(engine) ELSE engine)
        /\ HasSession(currentSession) =>
                /\ Ended(currentSession, currentSession')
                /\ OthersUnchanged(currentSession.id)
                /\ \A i \in Entries(allSessions, currentSession.id) :
                        Ended(allSessions[i], allSessions'[i])

C6_StopEndsSession == [][C6_Step]_vars

\* stop has ended the session that was being listened to
C6_Witness ==
    /\ last = Did("stop", "stop", "ok")
    /\ engine = "stopping"
    /\ HasSession(currentSession)
    /\ Entries(allSessions, currentSession.id) # {}
    /\ \A i \in Entries(allSessions, currentSession.id) :
            /\ ~allSessions[i].isActive
            /\ allSessions[i].endTime = SomeTime
    /\ currentSession.endTime = SomeTime
    /\ ~isListening
    /\ ~isPaused

(***************************************************************************)
(* C7: start with permission granted, called with no current session or    *)
(* with an ended current session, appends exactly one new session          *)
(* (active, empty audioFiles and transcripts) to the session list and      *)
(* makes it current, in the step that starts the engine; the existing      *)
(* sessions are left unchanged.                                            *)
(***************************************************************************)
Fresh(s) ==
    /\ s.isActive
    /\ s.audioFiles = <<>>
    /\ s.transcripts = <<>>
    /\ s.endTime = NoTime
    /\ HasSession(s)

C7_Step ==
    (Ran("startGranted") /\ (~call.hasSession \/ ~call.isActive)) =>
        /\ Len(allSessions') = Len(allSessions) + 1
        /\ SubSeq(allSessions', 1, Len(allSessions)) = allSessions
        /\ Fresh(allSessions'[Len(allSessions')])
        /\ Entries(allSessions, allSessions'[Len(allSessions')].id) = {}
        /\ currentSession' = allSessions'[Len(allSessions')]
        /\ last'.engineCall = "start"
        /\ engine' = "starting"

C7_StartCreatesSession == [][C7_Step]_vars

\* the start that followed a stop has put a second session behind the ended one
C7_Witness ==
    /\ last.op = "startGranted"
    /\ engine = "starting"
    /\ Len(allSessions) = 2
    /\ ~allSessions[1].isActive
    /\ Len(allSessions[1].transcripts) > 0
    /\ Fresh(allSessions[2])
    /\ currentSession = allSessions[2]

(***************************************************************************)
(* C8: start without the permission fails with an error and changes no     *)
(* state: no session is created, the stored options, isListening,          *)
(* isPaused, the session list and the transcript views are as before, and  *)
(* the engine is not started.                                              *)
(***************************************************************************)
C8_Step ==
    /\ Ran("start") =>
            /\ UNCHANGED <<prog, engine, recording>>
            /\ last'.engineCall = "none"
    /\ Ran("startDenied") =>
            /\ UNCHANGED <<prog, engine, recording>>
            /\ last'.engineCall = "none"
            /\ call.via = "start" => last'.outcome = "rejected"
            /\ call'.pc = "none"

C8_DeniedStartChangesNothing == [][C8_Step]_vars

\* a start(options) was refused while no options were stored yet
C8_Witness ==
    /\ last = Did("startDenied", "none", "rejected")
    /\ sessionOptions = NoOpts
    /\ allSessions = <<>>
    /\ engine = "off"

(***************************************************************************)
(* C9: resume in any state other than Paused with a current session is a   *)
(* no-op: no start is under way afterwards, no session is created and no   *)
(* state changes.                                                          *)
(***************************************************************************)
C9_Step ==
    (Ran("resume") /\ ~(isPaused /\ HasSession(currentSession))) =>
        /\ UNCHANGED <<prog, engine, recording, call>>
        /\ last'.engineCall = "none"
        /\ last'.outcome = "warn"

C9_ResumeOnlyFromPaused == [][C9_Step]_vars

(***************************************************************************)
(* C10: pause while not Listening sends nothing to the engine, changes no  *)
(* state and raises no error; pause while Listening sends one stop to the  *)
(* engine, and the end event that follows makes the machine Paused         *)
(* whether or not the segment has been finalized.                          *)
(***************************************************************************)
C10_Step ==
    /\ (Ran("pause") /\ ~isListening) =>
            /\ UNCHANGED <<prog, engine, recording, call>>
            /\ last'.engineCall = "none"
            /\ last'.outcome = "warn"
    /\ (Ran("pause") /\ isListening) =>
            /\ last'.engineCall = "stop"
            /\ last'.outcome = "ok"
            /\ engine' = EngineStop(engine)
            /\ UNCHANGED <<currentSession, allSessions, recording, call>>
    /\ Ran("onEnd") =>
            /\ isPaused'
            /\ ~isListening'
            /\ recording' = recording

C10_PauseStopsEngine == [][C10_Step]_vars

\* pause has sent stop to the engine and the segment is still to come
C10_Witness ==
    /\ last = Did("pause", "stop", "ok")
    /\ engine = "stopping"
    /\ recording
    /\ isListening

(***************************************************************************)
(* C11: stop called while Idle (isListening = false and isPaused = false)  *)
(* changes nothing: no session is ended or given an end time, no engine    *)
(* call is made, isListening, isPaused and the session list are unchanged, *)
(* and no error is thrown.                                                 *)
(***************************************************************************)
C11_Step ==
    (Ran("stop") /\ ~isListening /\ ~isPaused) =>
        /\ UNCHANGED <<prog, engine, recording, call>>
        /\ last'.engineCall = "none"
        /\ last'.outcome = "warn"

C11_StopWhileIdle == [][C11_Step]_vars

\* stop has returned with its warning while the current session is active
C11_Witness ==
    /\ last = Did("stop", "none", "warn")
    /\ ~isListening
    /\ ~isPaused
    /\ currentSession.isActive
    /\ Len(allSessions) = 1
    /\ allSessions[1] = currentSession
    /\ currentSession.endTime = NoTime

(***************************************************************************)
(* C12: fragments are created by final results only, one per final         *)
(* result: a final result received while a session is current appends one  *)
(* fragment with its text to the end of the current session's transcripts  *)
(* and to the aggregate transcript and clears the interim view; an interim *)
(* result replaces the interim view only and leaves all sessions and the   *)
(* aggregate transcript unchanged.                                         *)
(***************************************************************************)
WithFragment(s, text) == [s EXCEPT !.transcripts = Append(@, Fragment(text))]

C12_Final(text) ==
    /\ transcript' = transcript \o <<Space, text>>
    /\ interimTranscript' = Empty
    /\ HasSession(currentSession) =>
            /\ currentSession' = WithFragment(currentSession, text)
            /\ OthersUnchanged(currentSession.id)
            /\ \A i \in Entries(allSessions, currentSession.id) :
                    allSessions'[i] = WithFragment(allSessions[i], text)

C12_Interim(text) ==
    /\ interimTranscript' = text
    /\ UNCHANGED <<transcript, allSessions, currentSession>>

\* a step that is no result event leaves the texts of every session that
\* stays in the list as they were, and a session it adds has no fragment
C12_NoNewFragments ==
    /\ \A j \in 1..Len(allSessions') :
            IF Entries(allSessions, allSessions'[j].id) # {}
            THEN \A i \in Entries(allSessions, allSessions'[j].id) :
                    TextsOf(allSessions'[j].transcripts)
                        = TextsOf(allSessions[i].transcripts)
            ELSE allSessions'[j].transcripts = <<>>
    /\ HasSession(currentSession') =>
            \/ /\ currentSession'.id = currentSession.id
               /\ TextsOf(currentSession'.transcripts)
                    = TextsOf(currentSession.transcripts)
            \/ \E j \in 1..Len(allSessions') : allSessions'[j] = currentSession'

C12_Step ==
    IF Ran("onResult")
    THEN \A isFinal \in BOOLEAN, results \in Results :
            onResult(isFinal, results) =>
                IF Len(results) = 0
                THEN UNCHANGED <<transcript, interimTranscript, allSessions,
                                 currentSession>>
                ELSE IF isFinal
                THEN C12_Final(results[1].transcript)
                ELSE C12_Interim(results[1].transcript)
    ELSE C12_NoNewFragments

C12_FragmentPerFinalResult == [][C12_Step]_vars

\* an interim result has come after a final one: the session holds the one
\* fragment of the final result and the interim text is in the interim view
C12_Witness ==
    /\ last.op = "onResult"
    /\ HasSession(currentSession)
    /\ Len(currentSession.transcripts) = 1
    /\ Len(allSessions) = 1
    /\ allSessions[1] = currentSession
    /\ transcript = <<Space, currentSession.transcripts[1].transcript>>
    /\ interimTranscript # Empty

(***************************************************************************)
(* C13: an engine error event sets isListening = false and isPaused =      *)
(* false and leaves the current session's isActive, endTime, audioFiles    *)
(* and transcripts unchanged; a following resume (with the permission      *)
(* granted) starts capture into that same session without creating a new   *)
(* one.                                                                    *)
(***************************************************************************)
C13_Step ==
    /\ Ran("onError") =>
            /\ ~isListening'
            /\ ~isPaused'
            /\ currentSession' = currentSession
            /\ allSessions' = allSessions
    /\ (Ran("resume") /\ ~isListening /\ ~isPaused /\ currentSession.isActive) =>
            /\ last'.outcome = "pending"
            /\ call' = Captured("resume", NoOpts)
            /\ call'.hasSession
            /\ call'.isActive
            /\ UNCHANGED <<prog, engine>>
    /\ (Ran("startGranted") /\ call.via = "resume" /\ call.hasSession
            /\ call.isActive) =>
            /\ currentSession' = currentSession
            /\ allSessions' = allSessions
            /\ sessionCounter' = sessionCounter
            /\ last'.engineCall = "start"
            /\ engine' = "starting"

C13_ErrorLeavesSessionResumable == [][C13_Step]_vars

\* resume has been taken after an error: the only session there has ever
\* been holds a fragment, was never stopped, and the machine is Idle
C13_Witness ==
    /\ last = Did("resume", "none", "pending")
    /\ call = [pc |-> "perm", via |-> "resume", options |-> NoOpts,
               hasSession |-> TRUE, isActive |-> TRUE]
    /\ sessionCounter = 1
    /\ Len(allSessions) = 1
    /\ allSessions[1] = currentSession
    /\ currentSession.isActive
    /\ Len(currentSession.transcripts) = 1
    /\ ~isListening
    /\ ~isPaused

(***************************************************************************)
(* C14: clearSessions, called from any state (Idle, Listening or Paused)   *)
(* and even when deleting some audio files fails, leaves an empty session  *)
(* list, no current session, empty transcript and interim views and the    *)
(* machine Idle (isListening = false, isPaused = false); it attempts the   *)
(* deletion of every audio file of every session and does not throw.       *)
(***************************************************************************)
C14_Step ==
    Ran("clearSessions") =>
        /\ allSessions' = <<>>
        /\ currentSession' = NullSession
        /\ transcript' = <<>>
        /\ interimTranscript' = Empty
        /\ ~isListening'
        /\ ~isPaused'
        /\ last'.attempted = AllAudioFiles(allSessions)
        /\ last'.outcome = "ok"

C14_ClearLeavesIdle == [][C14_Step]_vars

(***************************************************************************)
(* C15: switchToSession(id) never changes isListening, isPaused, the       *)
(* session list or the contents of any session, works the same whether     *)
(* the target session is active or ended, and for an id that is not in     *)
(* the session list changes nothing at all.                                *)
(***************************************************************************)
C15_Step ==
    Ran("switchToSession") => \A sessionId \in 0..MaxSessions :
        switchToSession(sessionId) =>
            /\ UNCHANGED <<isListening, isPaused, allSessions, sessionCounter,
                           sessionOptions, engine, recording, call>>
            /\ IF Entries(allSessions, sessionId) = {}
               THEN UNCHANGED <<currentSession, transcript, interimTranscript>>
               ELSE /\ currentSession'.id = sessionId
                    /\ \E i \in Entries(allSessions, sessionId) :
                            currentSession' = allSessions[i]
                    /\ transcript' = JoinTexts(currentSession'.transcripts)
                    /\ interimTranscript' = Empty

C15_SwitchIsViewOnly == [][C15_Step]_vars

\* while the second session is listened to, the view has been switched to
\* the first session, which is ended
C15_Witness ==
    /\ last.op = "switchToSession"
    /\ isListening
    /\ Len(allSessions) = 2
    /\ currentSession = allSessions[1]
    /\ ~currentSession.isActive
    /\ allSessions[2].isActive
    /\ Len(currentSession.transcripts) = 1
    /\ transcript = <<currentSession.transcripts[1].transcript>>

(***************************************************************************)
(* Helpers of the joiner's properties: what a source holds, read from its  *)
(* chunk list.                                                             *)
(***************************************************************************)
\* the body of the first chunk with the given id
RECURSIVE BodyOf(_, _)
BodyOf(cs, id) ==
    IF Len(cs) = 0 THEN <<>>
    ELSE IF cs[1].id = id THEN cs[1].body
    ELSE BodyOf(Tail(cs), id)

\* the payload of a source: the body of its data chunk
Payload(audioFile) == BodyOf(ChunksOf(FilePath(audioFile)), DATA)

\* the payloads of the sources, in input order
RECURSIVE Payloads(_)
Payloads(audioFiles) ==
    IF Len(audioFiles) = 0 THEN <<>>
    ELSE Payload(audioFiles[1]) \o Payloads(Tail(audioFiles))

\* what follows the 44-byte header of a file
AfterHeader(bytes) == SubSeq(bytes, HeaderSize + 1, Len(bytes))

\* a valid source: a file that exists and is a RIFF/WAVE container whose
\* chunks lie in the file
Valid(audioFile) ==
    /\ Exists(FilePath(audioFile))
    /\ IsContainer(FilePath(audioFile))
    /\ ~TopBit(FilePath(audioFile))

AllValid(audioFiles) == \A i \in 1..Len(audioFiles) : Valid(audioFiles[i])

(***************************************************************************)
(* C4: for every non-empty list of valid sources the payload of the file   *)
(* joinAudioFiles produces is payload(source[0]) ++ payload(source[1]) ++  *)
(* ... in input order, byte for byte.                                      *)
(***************************************************************************)
C4_JoinedPayload ==
    (join.pc = "done" /\ AllValid(join.audioFiles)) =>
        AfterHeader(join.output) = Payloads(join.audioFiles)

(***************************************************************************)
(* C5: the file joinAudioFiles writes begins with a 44-byte canonical      *)
(* header whose total-size field is 36 + T and whose data length field is  *)
(* T, little-endian, T being the sum of the sources' payload lengths; the  *)
(* file holds the format chunk and the data chunk and nothing else.        *)
(***************************************************************************)
C5_CanonicalHeader ==
    (join.pc = "done" /\ AllValid(join.audioFiles)) =>
        LET T == Len(Payloads(join.audioFiles))
            out == join.output
        IN  /\ Len(out) = HeaderSize + T
            /\ SubSeq(out, 1, 4) = RIFF
            /\ SubSeq(out, 5, 8) = PutInt(36 + T)
            /\ SubSeq(out, 9, 12) = WAVE
            /\ SubSeq(out, 13, 36) =
                    Chunk(FMT, BodyOf(ChunksOf(FilePath(join.audioFiles[1])), FMT))
            /\ SubSeq(out, 37, 40) = DATA
            /\ SubSeq(out, 41, 44) = PutInt(T)

(***************************************************************************)
(* C16: joinAudioFiles with an empty list fails with an empty-input error  *)
(* and performs no filesystem write: no output file is created.            *)
(***************************************************************************)
C16_EmptyInputFails ==
    (join.pc # "idle" /\ join.audioFiles = <<>>) =>
        /\ join.pc = "failed"
        /\ join.error = "No audio files provided"
        /\ ~join.created
        /\ join.output = <<>>

\* the Swift joiner has refused an empty list
C16_Witness ==
    /\ join.pc = "failed"
    /\ join.platform = "ios"
    /\ join.audioFiles = <<>>
    /\ join.error = "No audio files provided"
    /\ ~join.created

(***************************************************************************)
(* C17: if a source of the list, at any position, does not exist,          *)
(* joinAudioFiles fails with a not-found error naming that source, the     *)
(* whole join is aborted and no output file is created.  The source named  *)
(* is the first one that fails: the sources before it are valid.           *)
(***************************************************************************)
NotFoundErrors == {"First audio file not found", "Audio file not found"}

C17_MissingSourceFails ==
    \A k \in 1..Len(join.audioFiles) :
        ~Exists(FilePath(join.audioFiles[k])) =>
            /\ ~join.created
            /\ join.output = <<>>
            /\ join.pc \notin {"append", "done"}
            /\ (\A i \in 1..(k - 1) : Valid(join.audioFiles[i])) =>
                    /\ join.pc \in {"scan", "failed"}
                    /\ Len(join.convertedFilePaths) <= k
                    /\ (k = 1 \/ Len(join.convertedFilePaths) = k) =>
                            join.pc = "failed"
                    /\ join.pc = "failed" =>
                            /\ join.error \in NotFoundErrors
                            /\ join.named = FilePath(join.audioFiles[k])

\* the Kotlin joiner has failed on the second source, which does not exist
C17_Witness ==
    /\ join.pc = "failed"
    /\ join.platform = "android"
    /\ Len(join.audioFiles) = 2
    /\ FilePath(join.audioFiles[1]) = "canon"
    /\ FilePath(join.audioFiles[2]) = "gone"
    /\ join.error = "Audio file not found"
    /\ join.named = "gone"
    /\ ~join.created

(***************************************************************************)
(* C18: joinAudioFiles fails with an invalid-format error whenever any     *)
(* source, not only the first, is smaller than the fixed preamble or does  *)
(* not carry the container signature in its preamble; no such source       *)
(* contributes bytes to an output.                                         *)
(***************************************************************************)
InvalidFormatErrors ==
    {"First file is not a valid WAV file",
     "First file is too small to be a valid WAV file"}

C18_InvalidFormatFails ==
    ((\A i \in 1..Len(join.audioFiles) : Exists(FilePath(join.audioFiles[i])))
        /\ (\E k \in 1..Len(join.audioFiles) :
                ~IsContainer(FilePath(join.audioFiles[k])))) =>
        /\ join.pc \in {"scan", "failed"}
        /\ join.pc = "failed" => join.error \in InvalidFormatErrors
        /\ ~join.created
        /\ join.output = <<>>

(***************************************************************************)
(* C19: joinAudioFiles rejects the join (FormatMismatch) when a source's   *)
(* sample rate, bit depth, channel count or encoding differs from the      *)
(* first source's; a successful output only ever concatenates payloads of  *)
(* one identical format.                                                   *)
(***************************************************************************)
\* the format of a source: the body of its fmt chunk
FormatOf(audioFile) == BodyOf(ChunksOf(FilePath(audioFile)), FMT)

C19_FormatMismatchRejected ==
    (AllValid(join.audioFiles)
        /\ (\E k \in 1..Len(join.audioFiles) :
                FormatOf(join.audioFiles[k]) # FormatOf(join.audioFiles[1]))) =>
        /\ join.pc \in {"scan", "failed"}
        /\ ~join.created
        /\ join.output = <<>>

(***************************************************************************)
(* C20: for every buffer findDataChunk walks the chunks from offset 12,    *)
(* stepping by 8 + length plus one pad byte when length is odd, and        *)
(* returns (offset of the chunk body, declared length) of the first chunk  *)
(* whose id is "data", wherever in the buffer that chunk header sits; it   *)
(* returns the fallback (44, buffer size - 44) only when the buffer holds  *)
(* no data chunk on that walk.                                             *)
(***************************************************************************)
\* the four bytes at offset + 4, little-endian and unsigned; a length of
\* 2^31 or more, which is more than any buffer holds, is given as MaxInt
Length32(data, offset) ==
    IF data[offset + 8] >= 128 THEN MaxInt
    ELSE data[offset + 5] + data[offset + 6] * 256 + data[offset + 7] * 65536
            + data[offset + 8] * 16777216

\* the walk the claim describes: every chunk header that lies in the buffer
\* is looked at
RECURSIVE WalkFrom(_, _)
WalkFrom(data, offset) ==
    IF offset + 8 > Len(data)
    THEN <<HeaderSize, Len(data) - HeaderSize>>
    ELSE LET length == Length32(data, offset)
         IN  IF SubSeq(data, offset + 1, offset + 4) = DATA
             THEN <<offset + 8, length>>
             ELSE IF length >= Len(data)
             THEN <<HeaderSize, Len(data) - HeaderSize>>
             ELSE WalkFrom(data, offset + 8 + length + (length % 2))

C20_FindsDataChunkAnywhere ==
    \A i \in 1..Len(join.dataChunkOffsets) :
        <<join.dataChunkOffsets[i], join.dataChunkSizes[i]>>
            = WalkFrom(ReadBytes(join.convertedFilePaths[i]), RiffHeaderSize)


\* ---- C21 ----------------------------------------------------------------

\* what the file of an earlier output holds now: this call's bytes when the
\* call has opened a file of the same name, else what it held
EarlierOnDisk(e) ==
    IF join.created /\ join.outputPath = e.path THEN join.output
    ELSE e.content

\* C21: joinAudioFiles is idempotent and retry-safe: a call repeated with
\* the same inputs, right after an earlier call or later, writes a new output
\* file with the same content as the earlier output, and the file an earlier
\* call returned is never written again.
C21_RetrySafe ==
    \A i \in 1..Len(join.earlier) :
        LET e == join.earlier[i] IN
        /\ EarlierOnDisk(e) = e.content
        /\ join.created => join.outputPath # e.path
        /\ join.pc = "done" => join.output = e.content


\* ---- C27 ----------------------------------------------------------------

\* the fields of a format sub-chunk's body: encoding tag, channel count,
\* sample rate, bit depth
FormatFields(body) ==
    <<SubSeq(body, 1, 2), SubSeq(body, 3, 4), SubSeq(body, 5, 8),
      SubSeq(body, 15, 16)>>

\* the same fields where a 44-byte header keeps them
HeaderFields(bytes) ==
    <<SubSeq(bytes, 21, 22), SubSeq(bytes, 23, 24), SubSeq(bytes, 25, 28),
      SubSeq(bytes, 35, 36)>>

\* C27: the format fields of the joined output (encoding tag, channel
\* count, sample rate, bit depth) are those of the first source's format
\* sub-chunk, for every first source that is a valid container with a format
\* sub-chunk, whatever chunks precede that sub-chunk and whatever its length.
C27_FormatOfFirstSource ==
    (/\ join.pc = "done"
     /\ Valid(join.audioFiles[1])
     /\ FormatOf(join.audioFiles[1]) # <<>>) =>
        HeaderFields(join.output) = FormatFields(FormatOf(join.audioFiles[1]))


\* ---- C29 ----------------------------------------------------------------

\* the offsets the loop of findDataChunk (Kotlin) takes from the given one,
\* as many as fuel allows
RECURSIVE OffsetsFrom(_, _, _)
OffsetsFrom(data, offset, fuel) ==
    IF ~(offset < Len(data) - 8) \/ offset < 0 \/ fuel = 0 THEN <<offset>>
    ELSE IF SubSeq(data, offset + 1, offset + 4) = DATA THEN <<offset>>
    ELSE <<offset>> \o OffsetsFrom(data,
                NextOffset(data, offset, ChunkSizeAt(data, offset)), fuel - 1)

\* C29: findDataChunk ends on every buffer, also on one whose chunk length
\* has the top bit set: every iteration of its loop moves the offset
\* forward, the offset is never negative, and the search comes to an end.
C29_FindDataChunkTerminates ==
    /\ join.pc # "hangs"
    /\ join.error # "StringIndexOutOfBoundsException"
    /\ \A i \in 1..Len(join.convertedFilePaths) :
          (join.platform = "android" /\ Exists(join.convertedFilePaths[i])) =>
            LET data == ReadBytes(join.convertedFilePaths[i])
                offsets == OffsetsFrom(data, RiffHeaderSize, Len(data))
            IN  /\ \A k \in 1..Len(offsets) : offsets[k] >= 0
                /\ \A k \in 1..(Len(offsets) - 1) : offsets[k] < offsets[k + 1]


\* ---- C30 ----------------------------------------------------------------

\* C30: when a join returns an output path, the data length its header
\* states is the number of bytes written after the header, also when a
\* source is read from the fallback offset or is shorter than a header.
C30_DataLengthMatchesPayload ==
    join.pc = "done" =>
        Len(join.output) = HeaderSize + ChunkSizeAt(join.output, 36)


\* ---- C22 ----------------------------------------------------------------

\* C22: a failure of a command is reported to the caller of that command:
\* when the start() under a resume() fails, because the permission is not
\* granted or because the recognizer answers with an error, the caller of
\* resume() is given that failure, as the caller of start() is.
C22_Step ==
    (Ran("startDenied") \/ (Ran("onError") /\ call.pc = "ack")) =>
        last'.outcome = "rejected"

C22_FailureReported == [][C22_Step]_vars


\* ---- C23 ----------------------------------------------------------------

\* C23: a start() that waits for the recognizer's "start" or "error" event
\* does not wait for ever: it completes, with StartTimedOut when the
\* recognizer emits neither event.
C23_StartCompletes == (call.pc = "ack") ~> (call.pc = "none")


\* ---- C24 ----------------------------------------------------------------

\* C24: isListening becomes true only when the recognizer's "start" event
\* is handled: the steps of start() (its call, directly or through resume(),
\* and its continuation after the permission request) leave isListening as
\* it was, and when the recognizer answers with an error instead,
\* isListening is false and the start() waiting for the answer rejects.
C24_Step ==
    /\ (~isListening /\ isListening') => Ran("onStart")
    /\ (Ran("start") \/ Ran("resume") \/ Ran("startGranted")
            \/ Ran("startDenied")) => isListening' = isListening
    /\ Ran("onStart") => isListening'
    /\ Ran("onError") =>
            /\ ~isListening'
            /\ call.pc = "ack" =>
                    /\ last'.outcome = Failure(call.via)
                    /\ call'.pc = "none"

C24_ListeningOnlyOnAck == [][C24_Step]_vars

\* a start() has been called, has started the recognizer and has been
\* resolved by its "start" event
C24_Witness ==
    /\ last.op = "onStart"
    /\ last.outcome = "resolved"
    /\ isListening
    /\ call.pc = "none"


\* ---- C25 ----------------------------------------------------------------

\* C25: after stop() has ended a session the machine stays Idle: an event
\* of the recognizer that is delivered after the stop ("end", "audioend",
\* "result") leaves isListening and isPaused false.
C25_Step ==
    (/\ last.op = "stop"
     /\ last.outcome = "ok"
     /\ HasSession(currentSession)
     /\ Ran("onEnd") \/ Ran("onAudioend") \/ Ran("onResult")) =>
        (~isListening' /\ ~isPaused')

C25_IdleAfterStop == [][C25_Step]_vars


\* ---- C26 ----------------------------------------------------------------

\* C26: switchToSession does not change where events go: after a switch to
\* another session, a final result or a finished recording is still stored
\* in the session that was current before the switch, and no other session,
\* the one switched to included, is changed by it.
C26_Step ==
    (/\ last.op = "switchToSession"
     /\ last.from # NoId
     /\ HasSession(currentSession)
     /\ last.from # currentSession.id
     /\ Ran("onResult") \/ Ran("onAudioend")) =>
        OthersUnchanged(last.from)

C26_SwitchKeepsRouting == [][C26_Step]_vars


\* ---- C28 ----------------------------------------------------------------

\* C28: when stop() has ended the current session while a start() (called
\* directly or by resume()) was waiting for the permission request, the
\* start() that goes on does not record into the ended session: it makes a
\* new active session current, or it does not start the recognizer.
C28_Step ==
    (/\ Ran("startGranted")
     /\ last.op = "stop"
     /\ last.outcome = "ok"
     /\ HasSession(currentSession)) =>
        \/ last'.engineCall = "none"
        \/ /\ currentSession'.isActive
           /\ currentSession'.id # currentSession.id

C28_NoCaptureIntoEndedSession == [][C28_Step]_vars


\* ---- C31 ----------------------------------------------------------------

\* the entries of the session list that are active
ActiveEntries == {i \in 1..Len(allSessions) : allSessions[i].isActive}

\* C31: at most one session of the session list is active at any time.
C31_AtMostOneActive == Cardinality(ActiveEntries) <= 1


\* ---- C32 ----------------------------------------------------------------

\* C32: when there is a current session, the session list holds exactly one
\* session with its id, and that entry has the audioFiles, the transcripts
\* (with the files attached to them) and the isActive of currentSession.
C32_CurrentMirrorsList ==
    HasSession(currentSession) =>
        /\ Cardinality(Entries(allSessions, currentSession.id)) = 1
        /\ \A i \in Entries(allSessions, currentSession.id) :
              /\ allSessions[i].audioFiles = currentSession.audioFiles
              /\ allSessions[i].transcripts = currentSession.transcripts
              /\ allSessions[i].isActive = currentSession.isActive

\* the current session has been given a result and a recording, and has
\* been ended by stop
C32_Witness ==
    /\ HasSession(currentSession)
    /\ ~currentSession.isActive
    /\ Len(currentSession.transcripts) > 0
    /\ Len(currentSession.audioFiles) > 0
    /\ currentSession.transcripts[1].audioFileUri # NoUri


\* ---- C33 ----------------------------------------------------------------

\* the texts of the transcript view, without the separators between them
RECURSIVE ViewTexts(_)
ViewTexts(view) ==
    IF Len(view) = 0 THEN <<>>
    ELSE IF view[1] = Space THEN ViewTexts(Tail(view))
    ELSE <<view[1]>> \o ViewTexts(Tail(view))

\* C33: the transcript view holds exactly the texts of the current
\* session's fragments, in their order, and is empty when there is no
\* current session.
C33_ViewIsCurrentSession ==
    IF HasSession(currentSession)
    THEN ViewTexts(transcript) = TextsOf(currentSession.transcripts)
    ELSE transcript = <<>>


\* ---- C34 ----------------------------------------------------------------

\* C34: isListening and isPaused are never both true.
C34_NotListeningAndPaused == ~(isListening /\ isPaused)

\* the recognizer has been listening and its "end" event has been handled
\* while a start() was waiting for the recognizer's answer
C34_Witness ==
    /\ last.op = "onEnd"
    /\ isPaused
    /\ ~isListening
    /\ call.pc = "ack"

====
